---- MODULE Spec2Model ----
(***************************************************************************)
(* POMtools IFC export: the option resolution of one view export and the  *)
(* orchestration of the exports of the views of one or several documents. *)
(*                                                                         *)
(* Two entry points are modelled:                                          *)
(*   "single"  Export IFC.panel/Revit to IFC.pushbutton/script.py          *)
(*             (main -> process_document -> export_view_to_ifc)            *)
(*   "batch"   IFC Export.panel/Revit batch to IFC.pushbutton/script.py    *)
(*             (main -> open_and_process_revit_files -> process_document)  *)
(* External calls (OpenDocumentFile, os.makedirs, Transaction.Start,       *)
(* doc.Export, Transaction.Commit, doc.Close) are steps whose outcome is   *)
(* chosen nondeterministically among returning and raising.                *)
(*                                                                         *)
(* A third script is modelled on its own:                                  *)
(*   JSON Export.panel/IFCExportViews.pushbutton/script.py (read_ifc_file) *)
(* and so is the making of a file name from a display name, which the     *)
(* export scripts share.                                                   *)
(***************************************************************************)
EXTENDS Integers, Sequences, FiniteSets, TLC

\* ------------------------------------------------------------------ bounds
MaxUnits == 2
MaxViews == 2
MaxLines == 3
MaxName == 3

\* ------------------------------------------------------- JSON values (json.load)
JBool(b) == [t |-> "bool", b |-> b, n |-> 0, s |-> ""]
JInt(n) == [t |-> "int", b |-> FALSE, n |-> n, s |-> ""]
JStr(s) == [t |-> "str", b |-> FALSE, n |-> 0, s |-> s]

\* The number a JSON value compares equal to with Python's == (True == 1,
\* False == 0); a string equals no number (-1 is no IFC version code).
PyNum(x) == CASE x.t = "int" -> x.n
              [] x.t = "bool" -> (IF x.b THEN 1 ELSE 0)
              [] OTHER -> -1

\* str(x).lower() of the converters in simple_options.  The strings of the
\* model are already lower case.
PyStrLower(x) == CASE x.t = "bool" -> (IF x.b THEN "true" ELSE "false")
                   [] x.t = "int" -> ToString(x.n)
                   [] OTHER -> x.s

\* ------------------------------------------------------- IFCExportOptions
\* DB.IFCExportOptions(): the four properties the scripts assign, the view
\* filter and the named options given with AddOption.
NewOptions == [FileVersion |-> "Default", SpaceBoundaryLevel |-> 0,
               ExportBaseQuantities |-> FALSE, WallAndColumnSplitting |-> FALSE,
               FilterViewId |-> 0, Options |-> <<>>]

\* ifc_options.AddOption(name, value): the named option takes the value, a
\* later call for the same name replaces the earlier one.
AddOption(o, name, value) ==
    [o EXCEPT !.Options = [k \in (DOMAIN o.Options) \cup {name} |->
                              IF k = name THEN value ELSE o.Options[k]]]

\* The value of a named option, "<unset>" when AddOption never gave it.
OptionValue(o, name) ==
    IF name \in DOMAIN o.Options THEN o.Options[name] ELSE "<unset>"

\* The keys of simple_options, converted with str(x).lower().
SimpleOptions(e) ==
    IF e = "single"
    THEN {"VisibleElementsOfCurrentView", "Export2DElements", "ExportLinkedFiles",
          "UseActiveViewGeometry", "ExportIFCCommonPropertySets",
          "Use2DRoomBoundaryForVolume", "UseOnlyTriangulation",
          "UseTypeNameOnlyForIfcType"}
    ELSE {"VisibleElementsOfCurrentView", "Export2DElements", "ExportLinkedFiles",
          "UseActiveViewGeometry"}

\* The keys given to AddOption one by one before simple_options (single only).
LoweredOptions(e) ==
    IF e = "single" THEN {"ExportRoomsInView", "ExportSolidModelRep"} ELSE {}

\* The IFCVersion codes that select IFC4 in apply_ifc_config_to_options.
Ifc4Codes(e) == IF e = "single" THEN {23, 25} ELSE {23}

\* apply_ifc_config_to_options(config_data, ifc_options): the options after
\* the override bag was applied.
ApplyVersion_ResetUnknown(e, cd, o) ==
    IF "IFCVersion" \notin DOMAIN cd THEN o
    ELSE IF PyNum(cd["IFCVersion"]) = 21 THEN [o EXCEPT !.FileVersion = "IFC2x3CV2"]
    ELSE IF PyNum(cd["IFCVersion"]) \in Ifc4Codes(e) THEN [o EXCEPT !.FileVersion = "IFC4"]
    ELSE [o EXCEPT !.FileVersion = "Default"]

ApplyVersion(e, cd, o) ==
    IF "IFCVersion" \notin DOMAIN cd THEN o
    ELSE IF PyNum(cd["IFCVersion"]) = 21 THEN [o EXCEPT !.FileVersion = "IFC2x3CV2"]
    ELSE IF PyNum(cd["IFCVersion"]) \in Ifc4Codes(e) THEN [o EXCEPT !.FileVersion = "IFC4"]
    ELSE o

\* The .NET type of the property each of the three keys is assigned to, and
\* the keys whose assignment raises (a value of another type), each caught
\* by the try/except of its own key.
PropertyType(k) == IF k = "SpaceBoundaries" THEN "int" ELSE "bool"
PropertyKeys == {"SpaceBoundaries", "SplitWallsAndColumns", "ExportBaseQuantities"}
FailedProperties(cd) == {k \in PropertyKeys \cap DOMAIN cd : cd[k].t # PropertyType(k)}

ApplyProperties_AbortOnError(cd, o) ==
    IF FailedProperties(cd) # {} THEN o
    ELSE [o EXCEPT !.SpaceBoundaryLevel =
                      IF "SpaceBoundaries" \in DOMAIN cd
                      THEN cd["SpaceBoundaries"].n ELSE @,
                   !.WallAndColumnSplitting =
                      IF "SplitWallsAndColumns" \in DOMAIN cd
                      THEN cd["SplitWallsAndColumns"].b ELSE @,
                   !.ExportBaseQuantities =
                      IF "ExportBaseQuantities" \in DOMAIN cd
                      THEN cd["ExportBaseQuantities"].b ELSE @]

ApplyProperties(cd, o) ==
    LET o1 == IF "SpaceBoundaries" \in DOMAIN cd /\ cd["SpaceBoundaries"].t = "int"
              THEN [o EXCEPT !.SpaceBoundaryLevel = cd["SpaceBoundaries"].n] ELSE o
        o2 == IF "SplitWallsAndColumns" \in DOMAIN cd /\ cd["SplitWallsAndColumns"].t = "bool"
              THEN [o1 EXCEPT !.WallAndColumnSplitting = cd["SplitWallsAndColumns"].b] ELSE o1
        o3 == IF "ExportBaseQuantities" \in DOMAIN cd /\ cd["ExportBaseQuantities"].t = "bool"
              THEN [o2 EXCEPT !.ExportBaseQuantities = cd["ExportBaseQuantities"].b] ELSE o2
    IN o3

ApplyNamedOptions(e, cd, o) ==
    LET lowered == (LoweredOptions(e) \cup SimpleOptions(e)) \cap DOMAIN cd
        raw == IF e = "single" /\ "ExcludeFilter" \in DOMAIN cd
                  /\ cd["ExcludeFilter"].t = "str"
               THEN {"ExcludeFilter"} ELSE {}
    IN [o EXCEPT !.Options =
           [k \in (DOMAIN o.Options) \cup lowered \cup raw |->
               IF k \in lowered THEN PyStrLower(cd[k])
               ELSE IF k \in raw THEN cd[k].s
               ELSE o.Options[k]]]

\* A configuration file that holds a JSON number and no object:
\* `"IFCVersion" in config_data` raises, the outer except clause returns
\* False and no option is set.
ScalarData == [scalar |-> JInt(5)]

apply_ifc_config_to_options(e, cd, o) ==
    IF cd = ScalarData THEN o
    ELSE ApplyNamedOptions(e, cd, ApplyProperties(cd, ApplyVersion(e, cd, o)))

\* The keys apply_ifc_config_to_options logs a warning for: the properties
\* whose assignment raised and ExcludeFilter when AddOption refuses its value
\* (str(x).lower() and AddOption of two strings never raise).
ApplyWarnings(e, cd) ==
    IF cd = ScalarData THEN {}
    ELSE FailedProperties(cd)
         \cup (IF e = "single" /\ "ExcludeFilter" \in DOMAIN cd /\ cd["ExcludeFilter"].t # "str"
               THEN {"ExcludeFilter"} ELSE {})

\* What apply_ifc_config_to_options returns.
ApplyReturns(cd) == cd # ScalarData

\* The preset of the selected mode: IFC4 reference view, or IFC 2x3
\* coordination view 2.0 for every other mode.
Preset_NoVersion(ifc_version) == NewOptions

Preset(ifc_version) ==
    IF ifc_version = "ifc4"
    THEN LET o0 == [NewOptions EXCEPT !.FileVersion = "IFC4"]
             o1 == AddOption(o0, "ExchangeRequirement", "ReferenceView")
             o2 == AddOption(o1, "IFCVersion", "IFC4")
             o3 == AddOption(o2, "ExportBoundingBox", "false")
             o4 == AddOption(o3, "UseTypeNameOnlyForIfcType", "true")
         IN AddOption(o4, "UseOnlyTriangulation", "true")
    ELSE [NewOptions EXCEPT !.FileVersion = "IFC2x3CV2"]

\* The three options forced when use_active_view_only is set.
EnforceActiveView(o) ==
    AddOption(AddOption(AddOption(o, "VisibleElementsOfCurrentView", "true"),
                        "ExportLinkedFiles", "false"),
              "Export2DElements", "false")

\* What is applied again after the override bag when use_active_view_only.
ReapplyActiveView(o) == AddOption(o, "VisibleElementsOfCurrentView", "true")

\* load_ifc_config_from_json(config_file): the bag, or None when the file
\* cannot be opened or parsed.  config_file is "none" (no path), "missing"
\* (a path of no file), "unreadable" (a file json.load rejects) or "ok".
NoneData == [none |-> JBool(TRUE)]
load_ifc_config_from_json(config_file, config_data) ==
    IF config_file = "ok" THEN config_data ELSE NoneData

\* `if config_data:` a loaded, non-empty bag.
Truthy(cd) == cd # NoneData /\ DOMAIN cd # {}

\* `if config_file and os.path.exists(config_file)` and `if config_data:`
\* the override bag is applied.
Applies(config_file, config_data) ==
    /\ config_file \in {"unreadable", "ok"}
    /\ Truthy(load_ifc_config_from_json(config_file, config_data))

\* The warnings logged while the options of one view are resolved.
ResolveWarnings(e, config_file, config_data) ==
    IF Applies(config_file, config_data)
    THEN ApplyWarnings(e, load_ifc_config_from_json(config_file, config_data))
    ELSE {}

\* The value apply_ifc_config_to_options returned for the view, "not called"
\* when no override bag is applied.
ApplyResult(config_file, config_data) ==
    IF ~Applies(config_file, config_data) THEN "not called"
    ELSE IF ApplyReturns(load_ifc_config_from_json(config_file, config_data))
         THEN "True" ELSE "False"

\* The option bag handed to doc.Export for one view.
ResolveOptions(e, ifc_version, config_file, config_data, use_active_view_only, viewId) ==
    LET o1 == AddOption(Preset(ifc_version), "VisibleElementsOfCurrentView", "true")
        o2 == IF use_active_view_only THEN EnforceActiveView(o1) ELSE o1
        cd == load_ifc_config_from_json(config_file, config_data)
        o3 == IF config_file \in {"unreadable", "ok"} /\ Truthy(cd)
              THEN LET a == apply_ifc_config_to_options(e, cd, o2)
                   IN IF use_active_view_only THEN ReapplyActiveView(a) ELSE a
              ELSE o2
    IN [o3 EXCEPT !.FilterViewId = viewId]

\* ------------------------------------------------------- file names
\* The characters of the names of the model that are alphanumeric
\* (c.isalnum()); "<e9>" is the letter U+00E9, e with an acute accent.
Alnum == {"A", "B", "1", "<e9>"}
Kept_Everything(c) == TRUE
Kept(c) == c \in Alnum \/ c \in {" ", "-", "_"}

\* s.rstrip(): trailing white space removed.
RStrip_Once(s) == IF s # <<>> /\ s[Len(s)] = " " THEN SubSeq(s, 1, Len(s) - 1) ELSE s

RECURSIVE RStrip(_)
RStrip(s) == IF s # <<>> /\ s[Len(s)] = " " THEN RStrip(SubSeq(s, 1, Len(s) - 1)) ELSE s

\* "".join([c for c in view.Name if c.isalnum() or c in (' ','-','_')]).rstrip()
SafeName(name) == RStrip(SelectSeq(name, Kept))

\* safe_filename = prefix + safe_viewname (file_name + "_" + safe_filename
\* in the JSON scripts, when file_name is not empty)
SafeFilename(prefix, safe_viewname) == prefix \o safe_viewname

\* The characters of the display names, and the prefixes, of the runs of
\* the file naming alone.
NameChars == {"A", "1", " ", "-", "_", "/", "<e9>"}
NamePrefixes == {<<>>, <<"I", "F", "C", "4", "_">>, <<"A", "_">>}

\* view.Name of the views of a document, by view id.
ViewName(v) == CASE v = 1 -> <<"A", "1">>
                 [] v = 2 -> <<"A", "/", "1", " ">>
                 [] v = 3 -> <<"B", "_", "1">>
                 [] OTHER -> <<"B", "-", "1">>

\* The prefix of the output file name; "<TypeError>" when the expression
\* raises ("IFCVersion" in None, "IFCVersion" in 5).
FilenamePrefix(e, ifc_version, config_file, config_data) ==
    IF ifc_version = "ifc4" THEN "IFC4_"
    ELSE IF e = "batch" \/ config_file = "none" THEN "IFC2x3_"
    ELSE LET cd == load_ifc_config_from_json(config_file, config_data)
         IN IF cd = NoneData \/ cd = ScalarData THEN "<TypeError>"
            ELSE IF "IFCVersion" \in DOMAIN cd /\ PyNum(cd["IFCVersion"]) \in {23, 25}
                 THEN "IFC4_"
                 ELSE "IFC2x3_"

\* os.path.join(doc_folder, safe_filename + ".ifc")
FilePath(doc_folder, prefix, viewId) ==
    [dir |-> doc_folder, prefix |-> prefix, name |-> SafeName(ViewName(viewId)), ext |-> ".ifc"]

\* os.path.splitext(os.path.basename(file_path))[0]
FileName(path) == path.base

\* The i-th selected Revit file: its folder and its base name without extension.
UnitPath(i) == CASE i = 1 -> [dir |-> "d1", base |-> "A"]
                 [] i = 2 -> [dir |-> "d2", base |-> "A"]
                 [] OTHER -> [dir |-> "d1", base |-> "B"]

\* ------------------------------------------------------- report texts
\* str(ex) of what OpenDocumentFile, os.makedirs and doc.Close raise.
OpenError == "open failed"
ProcessError == "makedirs failed"
CloseError == "close failed"
NoViewReason == "aucune vue exportee"

\* file_name + " (" + str(ex) + ")"
FailedEntry(file_name, reason) == file_name \o " (" \o reason \o ")"

\* version_text of open_and_process_revit_files.
BatchVersionText(ifc_version) ==
    IF ifc_version = "ifc4" THEN "IFC 4 - Vue de reference"
    ELSE IF ifc_version = "custom" THEN "configuration personnalisee"
    ELSE "IFC 2x3 - Vue de coordination 2.0"

\* version_text of main of the single-document script.
SingleVersionText(config_option, config_file, config_data) ==
    IF config_option = "ifc4" THEN "IFC 4 - Vue de reference"
    ELSE IF config_option = "custom"
    THEN IF config_file \in {"unreadable", "ok"}
         THEN LET cd == load_ifc_config_from_json(config_file, config_data)
              IN IF Truthy(cd) /\ "IFCVersion" \in DOMAIN cd
                    /\ PyNum(cd["IFCVersion"]) \in {23, 25}
                 THEN "IFC 4 - Configuration personnalisee"
                 ELSE "IFC 2x3 - Configuration personnalisee"
         ELSE "Configuration personnalisee"
    ELSE "IFC 2x3 - Vue de coordination 2.0"

\* ------------------------------------------------------- read_ifc_file
\* A line of an IFC file is the sequence of its characters, the newline
\* included.  "<81>" is a byte that the default encoding of a CPython 3
\* engine cannot decode; the IronPython engine reads it as one character.
IfcMarker == <<"=", "I", "F", "C">>
Whitespace == {" ", "\n"}
BadByte == "<81>"

\* sub in s
Contains(s, sub) ==
    \E i \in 1..(Len(s) - Len(sub) + 1) : SubSeq(s, i, i + Len(sub) - 1) = sub

\* s.startswith(c)
StartsWith(s, c) == s # <<>> /\ s[1] = c

\* The position of the first c in s, 0 when s holds none.
Find(s, c) ==
    IF \E i \in DOMAIN s : s[i] = c
    THEN CHOOSE i \in DOMAIN s : s[i] = c /\ \A j \in 1..(i - 1) : s[j] # c
    ELSE 0

\* s.split(c)[0] and s.split(c)[1] (of an s that holds c)
FirstPart(s, c) == IF Find(s, c) = 0 THEN s ELSE SubSeq(s, 1, Find(s, c) - 1)
SecondPart(s, c) == FirstPart(SubSeq(s, Find(s, c) + 1, Len(s)), c)

\* s.strip(chars): the characters of cs removed at both ends.
RECURSIVE StripOf(_, _)
StripOf(s, cs) ==
    IF s # <<>> /\ s[1] \in cs THEN StripOf(Tail(s), cs)
    ELSE IF s # <<>> /\ s[Len(s)] \in cs THEN StripOf(SubSeq(s, 1, Len(s) - 1), cs)
    ELSE s

\* '=IFC' in decoded_line and decoded_line.startswith('#')
Qualifies(l) == Contains(l, IfcMarker) /\ StartsWith(l, "#")

\* parts[0].strip('#').strip() and parts[1].split('(')[0].strip()
EntityId(l) == StripOf(StripOf(FirstPart(l, "="), {"#"}), Whitespace)
EntityType(l) == StripOf(FirstPart(SecondPart(l, "="), "("), Whitespace)

\* element_info of line l read as the n-th line.
ElementInfo(l, n) ==
    [id |-> EntityId(l), type |-> EntityType(l), line |-> n,
     raw_data |-> StripOf(l, Whitespace)]

\* line_num += 1, for every line the loop takes.
LineNumber_OfEntities(n, l) == IF Qualifies(l) THEN n + 1 ELSE n
LineNumber(n, l) == n + 1

\* element_types[t] += 1 of a defaultdict(int)
Count(d, t) ==
    [k \in (DOMAIN d) \cup {t} |->
        IF k = t THEN (IF t \in DOMAIN d THEN d[t] ELSE 0) + 1 ELSE d[k]]

\* elements_by_type[t].append(r) of a defaultdict(list)
Collect(d, t, r) ==
    [k \in (DOMAIN d) \cup {t} |->
        IF k = t THEN Append(IF t \in DOMAIN d THEN d[t] ELSE <<>>, r) ELSE d[k]]

\* "{}  ({} elements)".format(t, n): the label of a type in the selection
\* dialog of process_ifc_file.
RECURSIVE Digits(_)
Digits(n) == IF n < 10 THEN <<ToString(n)>> ELSE Append(Digits(n \div 10), ToString(n % 10))
Label(t, n) ==
    t \o <<" ", " ", "(">> \o Digits(n) \o <<" ", "e", "l", "e", "m", "e", "n", "t", "s", ")">>

\* opt.split('  (')[0]
LabelSeparator_OneSpace == <<" ", "(">>
LabelSeparator == <<" ", " ", "(">>
FindSub(s, sub) ==
    IF Contains(s, sub)
    THEN CHOOSE i \in 1..Len(s) :
            /\ SubSeq(s, i, i + Len(sub) - 1) = sub
            /\ \A j \in 1..(i - 1) : SubSeq(s, j, j + Len(sub) - 1) # sub
    ELSE 0
TypeOfLabel(opt) ==
    IF FindSub(opt, LabelSeparator) = 0 THEN opt
    ELSE SubSeq(opt, 1, FindSub(opt, LabelSeparator) - 1)

\* extract_elements_from_ifc(ifc_data, selected_types): its "elements".
extract_elements_all(by_type, selected) == by_type
extract_elements_from_ifc(by_type, selected) ==
    [t \in selected \cap DOMAIN by_type |-> by_type[t]]

\* The lines of the IFC files of the model.
IfcLines ==
    {<<"I", "S", "O", ";", "\n">>,
     <<"#", "1", "=", "I", "F", "C", "W", "(", ")", ";", "\n">>,
     <<"#", "2", " ", "=", "I", "F", "C", "D", " ", "(", ")", ";", "\n">>,
     <<"#", "3", "=", "I", "F", "C", "W", ";", "\n">>,
     <<"#", "4", "=", "X", "(", "=", "I", "F", "C", ")", ";", "\n">>,
     <<" ", "#", "5", "=", "I", "F", "C", "W", "(", ")", ";", "\n">>,
     <<"#", "6", "=", "I", "F", "C", "W", "(", "<81>", ")", ";", "\n">>,
     <<"#", "7", "=", "i", "f", "c", "w", "(", ")", ";">>}

\* ------------------------------------------------------------------ state
VARIABLES
    entry,                \* "single" | "batch": the script that runs
    ifc_version,          \* config_option: "default" | "ifc4" | "custom"
    config_file,          \* "none" | "missing" | "unreadable" | "ok"
    config_data,          \* the bag json.load returns for an "ok" file
    use_active_view_only,
    file_paths,           \* the selected Revit files, in order
    valid_views,          \* the valid views of a document, in order
    pc,                   \* the position of the script
    idx,                  \* the index of the unit in hand (1-based)
    docs,                 \* per unit: the state of its document
    version_text,
    exported_files,
    successful_files,
    failed_files,
    failed_units,         \* history: the unit of each entry of failed_files
    is_linked,            \* open_and_process_revit_files: the runner's probe failed
    dirs,                 \* the directories os.makedirs created
    views_to_export,
    vpos,                 \* the position of the view in hand in views_to_export
    doc_exports,          \* exported_files of process_document
    is_linked_file,       \* process_document: its probe failed
    ifc_options,
    warnings,             \* the keys a warning was logged for while resolving ifc_options
    applied,              \* what apply_ifc_config_to_options returned for the view in hand
    filepath,
    tx,                   \* the transaction in hand: "none" | "started" | "committed" | "rolledback"
    result,               \* doc.Export in hand: "none" | "truthy" | "falsy" | "raised"
    openTx,               \* history: the transactions started and neither committed nor rolled back
    exportCalls,          \* history: the calls of doc.Export for this unit (view, path)
    outcomes,             \* history: how the export of each view of this unit ended
    unitExports,          \* history: what process_document returned, per unit
    engine,               \* the engine that runs read_ifc_file: "IronPython" | "CPython3"
    ifc_lines,            \* the lines of the IFC file, in order
    rpc,                  \* the position of read_ifc_file
    consumed,             \* the lines the for loop has taken
    line_num,
    element_types,
    elements_by_type,
    selected_options,     \* the labels the user picked in the dialog of process_ifc_file
    selected_types,
    elements,             \* "elements" of what extract_elements_from_ifc returned
    display_name,         \* file naming alone: the name of the view or schedule
    name_prefix,
    npc,                  \* file naming alone: its position
    safe_viewname,
    safe_filename,
    safe_again            \* the safe name of safe_viewname

inputs == <<entry, ifc_version, config_file, config_data, use_active_view_only,
            file_paths, valid_views>>
runner == <<idx, docs, version_text, exported_files, successful_files, failed_files,
            failed_units, is_linked, dirs, unitExports>>
unit == <<views_to_export, vpos, doc_exports, is_linked_file, exportCalls, outcomes>>
view == <<ifc_options, warnings, applied, filepath, tx, result, openTx>>
selection == <<selected_options, selected_types, elements>>
reader == <<engine, ifc_lines, rpc, consumed, line_num, element_types, elements_by_type,
            selection>>
naming == <<display_name, name_prefix, npc, safe_viewname, safe_filename, safe_again>>
vars == <<inputs, pc, runner, unit, view, reader, naming>>

NoPath == [dir |-> "", prefix |-> "", name |-> <<>>, ext |-> ""]
NUnits == Len(file_paths)
file_name == FileName(file_paths[idx])
\* os.path.join(export_folder, file_name)
doc_folder == file_name

\* The override bags of the orchestration runs, and of the runs of one export.
Bag(version) == [k \in {"IFCVersion"} |-> JInt(version)]
SmallBags == {Bag(23)}
Absent == [t |-> "absent", b |-> FALSE, n |-> 0, s |-> ""]
VersionValues == {Absent, JInt(21), JInt(23), JInt(25), JInt(99)}
BoolOrAbsent == {"absent", "true", "false"}
MakeBag(ver, vis, lnk, two) ==
    LET keys == (IF ver = Absent THEN {} ELSE {"IFCVersion"})
                \cup (IF vis = "absent" THEN {} ELSE {"VisibleElementsOfCurrentView"})
                \cup (IF lnk = "absent" THEN {} ELSE {"ExportLinkedFiles"})
                \cup (IF two = "absent" THEN {} ELSE {"Export2DElements"})
    IN [k \in keys |->
          CASE k = "IFCVersion" -> ver
            [] k = "VisibleElementsOfCurrentView" -> JBool(vis = "true")
            [] k = "ExportLinkedFiles" -> JBool(lnk = "true")
            [] OTHER -> JBool(two = "true")]
ExportBags == {MakeBag(ver, vis, lnk, two) :
                  ver \in VersionValues, vis \in BoolOrAbsent,
                  lnk \in BoolOrAbsent, two \in BoolOrAbsent}

\* The override bags that give the properties, ExcludeFilter and a key the
\* scripts do not know (StoreIFCGUID, a key of the generated default file):
\* each key is absent, of the type the scripts expect, or of another type.
BagOf(f) == [k \in {j \in DOMAIN f : f[j] # Absent} |-> f[k]]
PropertyBags ==
    {BagOf([IFCVersion |-> ver, SpaceBoundaries |-> sb, SplitWallsAndColumns |-> sp,
            ExportBaseQuantities |-> bq, ExcludeFilter |-> ex, StoreIFCGUID |-> un,
            ExportLinkedFiles |-> lnk]) :
        ver \in VersionValues, sb \in {Absent, JInt(2), JStr("2")},
        sp \in {Absent, JBool(TRUE)}, bq \in {Absent, JBool(TRUE)},
        ex \in {Absent, JStr("x"), JInt(7)}, un \in {Absent, JBool(TRUE)},
        lnk \in {Absent, JBool(TRUE)}}
OverrideBags == ExportBags \cup PropertyBags \cup {ScalarData}

\* main: a configuration file is picked in custom mode only, and custom mode
\* without a picked file falls back to default.
ModeInit(bags) ==
    \/ /\ ifc_version \in {"default", "ifc4"}
       /\ config_file = "none"
       /\ config_data = <<>>
    \/ /\ ifc_version = "custom"
       /\ \/ config_file \in {"missing", "unreadable"} /\ config_data = <<>>
          \/ config_file = "ok" /\ config_data \in bags

\* The runs of the scripts name their files in PrepareExport.
NamingIdle ==
    /\ display_name = <<>>
    /\ name_prefix = <<>>
    /\ npc = "idle"
    /\ safe_viewname = <<>>
    /\ safe_filename = <<>>
    /\ safe_again = <<>>

\* read_ifc_file is not run by the export scripts.
ReaderIdle ==
    /\ engine = "IronPython"
    /\ ifc_lines = <<>>
    /\ rpc = "idle"
    /\ consumed = 0
    /\ line_num = 0
    /\ element_types = <<>>
    /\ elements_by_type = <<>>
    /\ selected_options = {}
    /\ selected_types = {}
    /\ elements = <<>>

StateInit ==
    /\ pc = IF entry = "batch" THEN "start" ELSE "makedirs"
    /\ ReaderIdle
    /\ NamingIdle
    /\ idx = 1
    \* The active document of the single script is open and takes transactions.
    /\ docs = [i \in 1..NUnits |->
                 IF entry = "single" THEN [state |-> "open", transactional |-> TRUE]
                 ELSE [state |-> "unopened", transactional |-> TRUE]]
    /\ version_text = ""
    /\ exported_files = <<>>
    /\ successful_files = 0
    /\ failed_files = <<>>
    /\ failed_units = <<>>
    /\ is_linked = FALSE
    /\ dirs = {}
    /\ views_to_export = <<>>
    /\ vpos = 0
    /\ doc_exports = <<>>
    /\ is_linked_file = FALSE
    /\ ifc_options = NewOptions
    /\ warnings = {}
    /\ applied = "not called"
    /\ filepath = NoPath
    /\ tx = "none"
    /\ result = "none"
    /\ openTx = 0
    /\ exportCalls = <<>>
    /\ outcomes = <<>>
    /\ unitExports = [i \in 1..NUnits |-> <<>>]

\* The orchestration runs: up to MaxUnits files of MaxViews valid views.
Init ==
    /\ entry \in {"single", "batch"}
    /\ ModeInit(SmallBags)
    /\ use_active_view_only = FALSE
    /\ file_paths \in {[i \in 1..n |-> UnitPath(i)] :
                          n \in (IF entry = "single" THEN {1} ELSE 1..MaxUnits)}
    /\ valid_views = [i \in 1..MaxViews |-> i]
    /\ StateInit

\* The runs of one export: one file of one view, every override bag.
InitExport ==
    /\ entry \in {"single", "batch"}
    /\ ModeInit(OverrideBags)
    /\ use_active_view_only \in BOOLEAN
    /\ file_paths = <<UnitPath(1)>>
    /\ valid_views = <<1>>
    /\ StateInit

\* No export script runs.
ExportIdle ==
    /\ entry = "single"
    /\ ifc_version = "default"
    /\ config_file = "none"
    /\ config_data = <<>>
    /\ use_active_view_only = FALSE
    /\ file_paths = <<>>
    /\ valid_views = <<>>
    /\ pc = "idle"
    /\ idx = 1
    /\ docs = <<>>
    /\ version_text = ""
    /\ exported_files = <<>>
    /\ successful_files = 0
    /\ failed_files = <<>>
    /\ failed_units = <<>>
    /\ is_linked = FALSE
    /\ dirs = {}
    /\ views_to_export = <<>>
    /\ vpos = 0
    /\ doc_exports = <<>>
    /\ is_linked_file = FALSE
    /\ ifc_options = NewOptions
    /\ warnings = {}
    /\ applied = "not called"
    /\ filepath = NoPath
    /\ tx = "none"
    /\ result = "none"
    /\ openTx = 0
    /\ exportCalls = <<>>
    /\ outcomes = <<>>
    /\ unitExports = <<>>

\* The runs of the file naming alone: every display name of up to MaxName
\* characters, with each prefix.
InitName ==
    /\ display_name \in UNION {[1..n -> NameChars] : n \in 0..MaxName}
    /\ name_prefix \in NamePrefixes
    /\ npc = "start"
    /\ safe_viewname = <<>>
    /\ safe_filename = <<>>
    /\ safe_again = <<>>
    /\ ReaderIdle
    /\ ExportIdle

\* The runs of read_ifc_file: every file of up to MaxLines lines, under both
\* engines; no export script runs.
InitIfc ==
    /\ engine \in {"IronPython", "CPython3"}
    /\ ifc_lines \in UNION {[1..n -> IfcLines] : n \in 0..MaxLines}
    /\ rpc = "open"
    /\ consumed = 0
    /\ line_num = 0
    /\ element_types = <<>>
    /\ elements_by_type = <<>>
    /\ selected_options = {}
    /\ selected_types = {}
    /\ elements = <<>>
    /\ NamingIdle
    /\ ExportIdle

\* ------------------------------------------------------------------ steps
Range(f) == {f[i] : i \in DOMAIN f}

\* failed_files.append(file_name + " (" + reason + ")")
RecordFailure(reason) ==
    /\ failed_files' = Append(failed_files, FailedEntry(file_name, reason))
    /\ failed_units' = Append(failed_units, idx)

\* The for loop of open_and_process_revit_files takes the next file, or the
\* summary is returned after the last one.
MoveOn_SameUnit ==
    /\ pc' = "open"
    /\ idx' = idx
    /\ is_linked' = FALSE
    /\ views_to_export' = <<>>
    /\ vpos' = 0
    /\ doc_exports' = <<>>
    /\ is_linked_file' = FALSE
    /\ exportCalls' = <<>>
    /\ outcomes' = <<>>
    /\ ifc_options' = NewOptions
    /\ warnings' = {}
    /\ applied' = "not called"
    /\ filepath' = NoPath
    /\ tx' = "none"
    /\ result' = "none"
    /\ openTx' = openTx

MoveOn ==
    IF idx < NUnits
    THEN /\ pc' = "open"
         /\ idx' = idx + 1
         /\ is_linked' = FALSE
         /\ views_to_export' = <<>>
         /\ vpos' = 0
         /\ doc_exports' = <<>>
         /\ is_linked_file' = FALSE
         /\ exportCalls' = <<>>
         /\ outcomes' = <<>>
         /\ ifc_options' = NewOptions
         /\ warnings' = {}
         /\ applied' = "not called"
         /\ filepath' = NoPath
         /\ tx' = "none"
         /\ result' = "none"
         /\ openTx' = openTx
    ELSE /\ pc' = "done"
         /\ is_linked' = is_linked
         /\ UNCHANGED <<idx, unit, view>>

\* The runner's answer to a file that cannot be opened: `continue`.
ContinuesAfterOpenFailure_Break == FALSE
ContinuesAfterOpenFailure == TRUE

\* `if result:` of the export of a view.
ExportSucceeded_Always(r) == r \in {"truthy", "falsy"}
ExportSucceeded(r) == r = "truthy"

\* process_document after its probe failed: `return []`.
AfterProbeFailure_FallThrough == "view"
AfterProbeFailure == "returned"

\* The for loop of process_document takes the next view, or returns.
AfterView ==
    /\ vpos' = vpos + 1
    /\ pc' = IF vpos < Len(views_to_export) THEN "view" ELSE "returned"

\* open_and_process_revit_files, before its loop.
StartBatch ==
    /\ pc = "start"
    /\ version_text' = BatchVersionText(ifc_version)
    /\ pc' = "open"
    /\ UNCHANGED <<naming, reader, inputs, idx, docs, exported_files, successful_files, failed_files,
                   failed_units, is_linked, dirs, unitExports, unit, view>>

\* app.OpenDocumentFile(model_path, open_options)
OpenDocumentFile ==
    /\ pc = "open"
    /\ \/ \E t \in BOOLEAN :
            /\ docs' = [docs EXCEPT ![idx] = [state |-> "open", transactional |-> t]]
            /\ pc' = "makedirs"
            /\ UNCHANGED <<idx, failed_files, failed_units, is_linked, unit, view>>
       \/ /\ docs' = [docs EXCEPT ![idx].state = "failed"]
          /\ RecordFailure(OpenError)
          /\ IF ContinuesAfterOpenFailure
             THEN MoveOn
             ELSE pc' = "done" /\ UNCHANGED <<idx, is_linked, unit, view>>
    /\ UNCHANGED <<naming, reader, inputs, version_text, exported_files, successful_files, dirs, unitExports>>

\* process_document: os.makedirs(doc_folder) when the folder does not exist.
MakeDirs ==
    /\ pc = "makedirs"
    /\ \/ /\ dirs' = dirs \cup {doc_folder}
          /\ pc' = "select"
          /\ UNCHANGED <<idx, failed_files, failed_units, is_linked, unit, view>>
       \/ /\ doc_folder \notin dirs
          /\ dirs' = dirs
          /\ IF entry = "batch"
             THEN RecordFailure(ProcessError) /\ MoveOn
             ELSE /\ pc' = "done"
                  /\ UNCHANGED <<idx, failed_files, failed_units, is_linked, unit, view>>
    /\ UNCHANGED <<naming, reader, inputs, docs, version_text, exported_files, successful_files, unitExports>>

\* process_document: the views the user selects among the valid views.
SelectViews ==
    /\ pc = "select"
    /\ \E S \in SUBSET Range(valid_views) :
          /\ views_to_export' = SelectSeq(valid_views, LAMBDA v : v \in S)
          /\ vpos' = 1
          /\ pc' = IF S = {} THEN "returned" ELSE IF entry = "batch" THEN "probe" ELSE "view"
    /\ UNCHANGED <<naming, reader, inputs, runner, doc_exports, is_linked_file, exportCalls, outcomes, view>>

\* process_document: test_transaction.Start()
ProbeStart ==
    /\ pc = "probe"
    /\ IF docs[idx].transactional
       THEN /\ tx' = "started"
            /\ openTx' = openTx + 1
            /\ pc' = "probe_rb"
            /\ is_linked_file' = FALSE
       ELSE /\ tx' = tx
            /\ openTx' = openTx
            /\ pc' = AfterProbeFailure
            /\ is_linked_file' = TRUE
    /\ UNCHANGED <<naming, reader, inputs, runner, views_to_export, vpos, doc_exports, exportCalls, outcomes,
                   ifc_options, warnings, applied, filepath, result>>

\* process_document: test_transaction.RollBack()
ProbeRollBack_Missing ==
    /\ pc = "probe_rb"
    /\ UNCHANGED <<tx, openTx>>
    /\ pc' = "view"
    /\ UNCHANGED <<naming, reader, inputs, runner, unit, ifc_options, warnings, applied, filepath, result>>

ProbeRollBack ==
    /\ pc = "probe_rb"
    /\ tx' = "rolledback"
    /\ openTx' = openTx - 1
    /\ pc' = "view"
    /\ UNCHANGED <<naming, reader, inputs, runner, unit, ifc_options, warnings, applied, filepath, result>>

\* The options and the file name of the view in hand.
PrepareExport ==
    /\ pc = "view"
    /\ LET v == views_to_export[vpos]
           prefix == FilenamePrefix(entry, ifc_version, config_file, config_data)
       IN /\ ifc_options' = ResolveOptions(entry, ifc_version, config_file, config_data,
                                           use_active_view_only, v)
          /\ warnings' = ResolveWarnings(entry, config_file, config_data)
          /\ applied' = ApplyResult(config_file, config_data)
          /\ tx' = "none"
          /\ openTx' = openTx
          /\ result' = "none"
          /\ IF prefix = "<TypeError>"
             THEN \* export_view_to_ifc logs the error and returns None
                  /\ filepath' = NoPath
                  /\ outcomes' = Append(outcomes, "error")
                  /\ AfterView
             ELSE /\ filepath' = FilePath(doc_folder, prefix, v)
                  /\ outcomes' = outcomes
                  /\ vpos' = vpos
                  /\ pc' = "tx_start"
    /\ UNCHANGED <<naming, reader, inputs, runner, views_to_export, doc_exports, is_linked_file, exportCalls>>

\* t.Start(), reached only for a document that takes transactions.
TxStart ==
    /\ pc = "tx_start"
    /\ tx' = "started"
    /\ openTx' = openTx + 1
    /\ pc' = "export"
    /\ UNCHANGED <<naming, reader, inputs, runner, unit, ifc_options, warnings, applied, filepath, result>>

\* doc.Export(doc_folder, safe_filename, ifc_options)
DocExport ==
    /\ pc = "export"
    /\ \E r \in {"truthy", "falsy", "raised"} :
          /\ result' = r
          /\ pc' = IF r = "raised" THEN "rollback" ELSE "commit"
    /\ exportCalls' = Append(exportCalls, [view |-> views_to_export[vpos], path |-> filepath])
    /\ UNCHANGED <<naming, reader, inputs, runner, views_to_export, vpos, doc_exports, is_linked_file,
                   outcomes, ifc_options, warnings, applied, filepath, tx, openTx>>

\* t.Commit(), and what follows it for the view.
TxCommit ==
    /\ pc = "commit"
    /\ \/ /\ tx' = "committed"
          /\ openTx' = openTx - 1
          /\ doc_exports' = IF ExportSucceeded(result)
                            THEN Append(doc_exports, filepath) ELSE doc_exports
          /\ outcomes' = Append(outcomes, result)
          /\ AfterView
       \/ /\ pc' = "rollback"
          /\ UNCHANGED <<tx, openTx, doc_exports, outcomes, vpos>>
    /\ UNCHANGED <<naming, reader, inputs, runner, views_to_export, is_linked_file, exportCalls,
                   ifc_options, warnings, applied, filepath, result>>

\* t.RollBack() of the except clause; the error is raised again and the loop
\* of process_document goes on with the next view.
TxRollBack ==
    /\ pc = "rollback"
    /\ tx' = "rolledback"
    /\ openTx' = openTx - 1
    /\ outcomes' = Append(outcomes, "raised")
    /\ AfterView
    /\ UNCHANGED <<naming, reader, inputs, runner, views_to_export, doc_exports, is_linked_file, exportCalls,
                   ifc_options, warnings, applied, filepath, result>>

\* process_document returned: what its caller does with the list.
ReturnExports ==
    /\ pc = "returned"
    /\ unitExports' = [unitExports EXCEPT ![idx] = doc_exports]
    /\ IF entry = "batch"
       THEN /\ pc' = "probe2"
            /\ version_text' = version_text
            /\ IF doc_exports # <<>>
               THEN /\ exported_files' = exported_files \o doc_exports
                    /\ successful_files' = successful_files + 1
                    /\ UNCHANGED <<failed_files, failed_units>>
               ELSE /\ RecordFailure(NoViewReason)
                    /\ UNCHANGED <<exported_files, successful_files>>
       ELSE /\ pc' = "done"
            /\ exported_files' = doc_exports
            /\ version_text' = IF doc_exports # <<>>
                               THEN SingleVersionText(ifc_version, config_file, config_data)
                               ELSE version_text
            /\ UNCHANGED <<successful_files, failed_files, failed_units>>
    /\ UNCHANGED <<naming, reader, inputs, idx, docs, is_linked, dirs, unit, view>>

\* open_and_process_revit_files: test_transaction.Start()
RunnerProbeStart ==
    /\ pc = "probe2"
    /\ IF docs[idx].transactional
       THEN /\ tx' = "started"
            /\ openTx' = openTx + 1
            /\ pc' = "probe2_rb"
            /\ UNCHANGED <<idx, is_linked, unit, ifc_options, warnings, applied, filepath, result>>
       ELSE \* is_linked = True: the document is not closed
            MoveOn
    /\ UNCHANGED <<naming, reader, inputs, docs, version_text, exported_files, successful_files, failed_files,
                   failed_units, dirs, unitExports>>

\* open_and_process_revit_files: test_transaction.RollBack()
RunnerProbeRollBack ==
    /\ pc = "probe2_rb"
    /\ tx' = "rolledback"
    /\ openTx' = openTx - 1
    /\ pc' = "close"
    /\ UNCHANGED <<naming, reader, inputs, runner, unit, ifc_options, warnings, applied, filepath, result>>

\* doc.Close(False)
DocClose ==
    /\ pc = "close"
    /\ \/ /\ docs' = [docs EXCEPT ![idx].state = "closed"]
          /\ UNCHANGED <<failed_files, failed_units>>
       \/ /\ docs' = docs
          /\ RecordFailure(CloseError)
    /\ MoveOn
    /\ UNCHANGED <<naming, reader, inputs, version_text, exported_files, successful_files, dirs, unitExports>>

Next ==
    \/ StartBatch
    \/ OpenDocumentFile
    \/ MakeDirs
    \/ SelectViews
    \/ ProbeStart
    \/ ProbeRollBack
    \/ PrepareExport
    \/ TxStart
    \/ DocExport
    \/ TxCommit
    \/ TxRollBack
    \/ ReturnExports
    \/ RunnerProbeStart
    \/ RunnerProbeRollBack
    \/ DocClose

Spec == Init /\ [][Next]_vars
SpecExport == InitExport /\ [][Next]_vars

\* The script runs to its end: a step that can be taken is taken.
SpecFair == Init /\ [][Next]_vars /\ WF_vars(Next)

\* ------------------------------------------------------- steps of read_ifc_file
export == <<inputs, pc, runner, unit, view>>

\* The outer except clause: the locals are lost and None is returned.
ReturnNone ==
    /\ rpc' = "failed"
    /\ consumed' = 0
    /\ line_num' = 0
    /\ element_types' = <<>>
    /\ elements_by_type' = <<>>

\* os.path.getsize(file_path) and open(file_path, 'r')
OpenIfcFile ==
    /\ rpc = "open"
    /\ \/ rpc' = "loop" /\ UNCHANGED <<consumed, line_num, element_types, elements_by_type>>
       \/ ReturnNone
    /\ UNCHANGED <<engine, ifc_lines, selection, export, naming>>

\* One turn of `for line in f`.  Reading a byte the encoding cannot decode
\* raises in the for statement itself, outside the try of the loop body;
\* the body raises nowhere (line is a string: it is not decoded again).
ReadLine ==
    /\ rpc = "loop"
    /\ consumed < Len(ifc_lines)
    /\ LET l == ifc_lines[consumed + 1]
           n == LineNumber(line_num, l)
       IN IF engine = "CPython3" /\ BadByte \in Range(l)
          THEN ReturnNone
          ELSE /\ rpc' = rpc
               /\ consumed' = consumed + 1
               /\ line_num' = n
               /\ IF Qualifies(l)
                  THEN /\ element_types' = Count(element_types, EntityType(l))
                       /\ elements_by_type' =
                             Collect(elements_by_type, EntityType(l), ElementInfo(l, n))
                  ELSE UNCHANGED <<element_types, elements_by_type>>
    /\ UNCHANGED <<engine, ifc_lines, selection, export, naming>>

\* The end of the file: the three mappings are returned.
ReturnIfcData ==
    /\ rpc = "loop"
    /\ consumed = Len(ifc_lines)
    /\ rpc' = "returned"
    /\ UNCHANGED <<engine, ifc_lines, consumed, line_num, element_types, elements_by_type,
                   selection, export, naming>>

\* process_ifc_file: no data, or no element: `return []`.
NoValidElements ==
    /\ rpc = "failed" \/ (rpc = "returned" /\ DOMAIN element_types = {})
    /\ rpc' = "nothing"
    /\ UNCHANGED <<engine, ifc_lines, consumed, line_num, element_types, elements_by_type,
                   selection, export, naming>>

\* process_ifc_file: the dialog of the types, and the types of the labels
\* the user picked; `return []` when none is picked.
SelectTypes ==
    /\ rpc = "returned"
    /\ DOMAIN element_types # {}
    /\ \E S \in SUBSET {Label(t, element_types[t]) : t \in DOMAIN element_types} :
          /\ selected_options' = S
          /\ selected_types' = {TypeOfLabel(opt) : opt \in S}
          /\ rpc' = IF S = {} THEN "nothing" ELSE "selected"
    /\ UNCHANGED <<engine, ifc_lines, consumed, line_num, element_types, elements_by_type,
                   elements, export, naming>>

\* process_ifc_file: exported_data = extract_elements_from_ifc(...)
ExtractElements ==
    /\ rpc = "selected"
    /\ elements' = extract_elements_from_ifc(elements_by_type, selected_types)
    /\ rpc' = "extracted"
    /\ UNCHANGED <<engine, ifc_lines, consumed, line_num, element_types, elements_by_type,
                   selected_options, selected_types, export, naming>>

NextIfc ==
    \/ OpenIfcFile
    \/ ReadLine
    \/ ReturnIfcData
    \/ NoValidElements
    \/ SelectTypes
    \/ ExtractElements

SpecIfc == InitIfc /\ [][NextIfc]_vars

\* ------------------------------------------------------- steps of the file naming
\* safe_viewname and safe_filename of a view (or of a schedule).
Sanitize ==
    /\ npc = "start"
    /\ safe_viewname' = SafeName(display_name)
    /\ safe_filename' = SafeFilename(name_prefix, SafeName(display_name))
    /\ npc' = "named"
    /\ UNCHANGED <<display_name, name_prefix, safe_again, reader, export>>

\* The safe name of a name that is a safe name already.
SanitizeAgain ==
    /\ npc = "named"
    /\ safe_again' = SafeName(safe_viewname)
    /\ npc' = "again"
    /\ UNCHANGED <<display_name, name_prefix, safe_viewname, safe_filename, reader, export>>

NextName ==
    \/ Sanitize
    \/ SanitizeAgain

SpecName == InitName /\ [][NextName]_vars

\* ------------------------------------------------------------------ claims
\* The options of the view in hand are resolved.
Resolved == ifc_options # NewOptions

\* C1: with use_active_view_only the resolved options end with
\* VisibleElementsOfCurrentView "true", ExportLinkedFiles "false" and
\* Export2DElements "false", whatever the override bag holds.
C1_ActiveViewEnforced ==
    (use_active_view_only /\ Resolved) =>
        /\ OptionValue(ifc_options, "VisibleElementsOfCurrentView") = "true"
        /\ OptionValue(ifc_options, "ExportLinkedFiles") = "false"
        /\ OptionValue(ifc_options, "Export2DElements") = "false"

\* C2: the exporter is called inside a started transaction, the transaction
\* is committed only after a truthy result, and it is rolled back when the
\* exporter raised.
C2_CommitOnlyOnTruthy ==
    /\ result # "none" => tx # "none"
    /\ tx = "committed" => result = "truthy"
    /\ (result = "raised" /\ pc \in {"view", "returned"}) => tx = "rolledback"

\* The positions of failed_files that belong to unit i.
FailuresOf(i) == {k \in DOMAIN failed_units : failed_units[k] = i}

RECURSIVE Concat(_, _)
Concat(f, n) == IF n = 0 THEN <<>> ELSE Concat(f, n - 1) \o f[n]

\* C3: a file whose open raises stops nothing: every file of the list is
\* opened in turn, each file whose open raised has exactly one failure entry
\* (its name and the error text), and the exports of the other files are in
\* the report.
C3_OpenFailureIsolated ==
    (entry = "batch" /\ pc = "done") =>
        /\ \A i \in 1..NUnits :
              /\ docs[i].state # "unopened"
              /\ docs[i].state = "failed" =>
                    /\ Cardinality(FailuresOf(i)) = 1
                    /\ \A k \in FailuresOf(i) :
                          failed_files[k] = FailedEntry(FileName(file_paths[i]), OpenError)
                    /\ unitExports[i] = <<>>
        /\ exported_files = Concat(unitExports, NUnits)

C3_Witness ==
    /\ entry = "batch" /\ pc = "done" /\ NUnits = 2
    /\ docs[1].state = "failed"
    /\ docs[2].state = "closed"
    /\ unitExports[2] # <<>>

\* C4: when process_document returns, the exporter was called exactly once
\* for each selected view, in order (the unit's probe did not fail).
C4_EveryViewExportedOnce ==
    (pc = "returned" /\ ~is_linked_file) =>
        [k \in DOMAIN exportCalls |-> exportCalls[k].view] = views_to_export

CallPath(v) == (CHOOSE c \in Range(exportCalls) : c.view = v).path
RECURSIVE CommittedPaths(_)
CommittedPaths(n) ==
    IF n = 0 THEN <<>>
    ELSE IF outcomes[n] = "truthy"
         THEN Append(CommittedPaths(n - 1), CallPath(views_to_export[n]))
         ELSE CommittedPaths(n - 1)

C6_NoExportAfterFailedProbe ==
    is_linked_file =>
        /\ exportCalls = <<>>
        /\ doc_exports = <<>>
        /\ unitExports[idx] = <<>>
        /\ pc \in {"returned", "probe2", "done"}

C6_Witness ==
    /\ is_linked_file
    /\ pc = "done"
    /\ Len(views_to_export) = 2

\* C7: a unit whose probe failed has exactly one failure entry in the
\* report, and its reason is not the generic "no view exported" one.
C7_SpecialUnitReported ==
    (is_linked_file /\ pc \in {"probe2", "done"}) =>
        /\ Cardinality(FailuresOf(idx)) = 1
        /\ \A k \in FailuresOf(idx) :
              failed_files[k] # FailedEntry(file_name, NoViewReason)

\* C8: when the next file is opened, every file opened before it that takes
\* transactions is closed; a special file is never closed by the runner.
C8_ClosedBeforeNextOpen ==
    /\ pc = "open" => \A j \in 1..(idx - 1) :
                         docs[j].state = "open" => ~docs[j].transactional
    /\ \A j \in 1..NUnits : docs[j].state = "closed" => docs[j].transactional

\* The override file gives an IFCVersion of 23 or 25.
OverrideIsIfc4 ==
    /\ config_file = "ok"
    /\ "IFCVersion" \in DOMAIN config_data
    /\ PyNum(config_data["IFCVersion"]) \in {23, 25}

\* C9: the prefix of the file name is "IFC4_" for the ifc4 mode and for an
\* override whose IFCVersion is 23 or 25, "IFC2x3_" otherwise, in both
\* entry points.
C9_PrefixOfProfile ==
    filepath # NoPath =>
        filepath.prefix = IF ifc_version = "ifc4" \/ OverrideIsIfc4
                          THEN "IFC4_" ELSE "IFC2x3_"

Ifc4Labels == {"IFC 4 - Vue de reference", "IFC 4 - Configuration personnalisee"}
Ifc2x3Labels == {"IFC 2x3 - Vue de coordination 2.0", "IFC 2x3 - Configuration personnalisee"}

\* C10: the label of the report names the profile applied: IFC4 for the
\* ifc4 mode and for a custom override whose IFCVersion is 23 or 25, IFC 2x3
\* otherwise.
C10_LabelOfProfile ==
    (pc = "done" /\ exported_files # <<>>) =>
        IF ifc_version = "ifc4" \/ OverrideIsIfc4
        THEN version_text \in Ifc4Labels
        ELSE version_text \in Ifc2x3Labels

\* ------------------------------------------------- claims on the override bag
\* The override bag of the run: the object of the configuration file, empty
\* when the file holds none.
Override == IF config_file = "ok" /\ config_data # ScalarData THEN config_data ELSE <<>>

\* The override gives no IFCVersion, or one that is neither 23 nor 25.
NoIfc4Override ==
    "IFCVersion" \notin DOMAIN Override \/ PyNum(Override["IFCVersion"]) \notin {23, 25}

\* The override gives key k a value of JSON type type.
Given(k, type) == k \in DOMAIN Override /\ Override[k].t = type

\* C11 as stated: with the Default profile and an override whose IFCVersion
\* is absent or neither 23 nor 25, the resolved options have file version
\* IFC2x3CV2, space boundary level 0, base quantities false and wall/column
\* split false, whatever the other keys of the override hold.
C11_DefaultProfileFixed ==
    (Resolved /\ ifc_version # "ifc4" /\ NoIfc4Override) =>
        /\ ifc_options.FileVersion = "IFC2x3CV2"
        /\ ifc_options.SpaceBoundaryLevel = 0
        /\ ifc_options.ExportBaseQuantities = FALSE
        /\ ifc_options.WallAndColumnSplitting = FALSE

\* C11 amended: with the Default profile and such an override the file
\* version is IFC2x3CV2, and the space boundary level, base quantities and
\* wall/column split are 0, false and false except for each of the keys
\* SpaceBoundaries, ExportBaseQuantities and SplitWallsAndColumns the
\* override gives a value of the property's type: that property takes the
\* override's value.
C11_DefaultProfileUnlessOverridden ==
    (Resolved /\ ifc_version # "ifc4" /\ NoIfc4Override) =>
        /\ ifc_options.FileVersion = "IFC2x3CV2"
        /\ ifc_options.SpaceBoundaryLevel =
              IF Given("SpaceBoundaries", "int") THEN Override["SpaceBoundaries"].n ELSE 0
        /\ ifc_options.ExportBaseQuantities =
              IF Given("ExportBaseQuantities", "bool")
              THEN Override["ExportBaseQuantities"].b ELSE FALSE
        /\ ifc_options.WallAndColumnSplitting =
              IF Given("SplitWallsAndColumns", "bool")
              THEN Override["SplitWallsAndColumns"].b ELSE FALSE

C11_Witness ==
    /\ Resolved
    /\ ifc_version = "custom"
    /\ Given("IFCVersion", "int") /\ Override["IFCVersion"].n = 99
    /\ Given("SpaceBoundaries", "int") /\ Given("ExportBaseQuantities", "bool")
    /\ "SplitWallsAndColumns" \notin DOMAIN Override
    /\ ifc_options.FileVersion = "IFC2x3CV2"
    /\ ifc_options.SpaceBoundaryLevel = 2
    /\ ifc_options.ExportBaseQuantities = TRUE
    /\ ifc_options.WallAndColumnSplitting = FALSE

\* The keys apply_ifc_config_to_options of the entry point reads, IFCVersion
\* apart.
RecognizedKeys ==
    PropertyKeys \cup LoweredOptions(entry) \cup SimpleOptions(entry)
    \cup (IF entry = "single" THEN {"ExcludeFilter"} ELSE {})

\* The value the override gives key k cannot be assigned to its option.
Fails(k) ==
    CASE k = "SpaceBoundaries" -> Override[k].t # "int"
      [] k \in {"SplitWallsAndColumns", "ExportBaseQuantities"} -> Override[k].t # "bool"
      [] k = "ExcludeFilter" -> Override[k].t # "str"
      [] OTHER -> FALSE

\* The resolved options hold the override's value for key k.
KeyApplied(k) ==
    CASE k = "SpaceBoundaries" -> ifc_options.SpaceBoundaryLevel = Override[k].n
      [] k = "SplitWallsAndColumns" -> ifc_options.WallAndColumnSplitting = Override[k].b
      [] k = "ExportBaseQuantities" -> ifc_options.ExportBaseQuantities = Override[k].b
      [] k = "ExcludeFilter" -> OptionValue(ifc_options, k) = Override[k].s
      [] k = "VisibleElementsOfCurrentView" /\ use_active_view_only ->
            OptionValue(ifc_options, k) = "true"
      [] OTHER -> OptionValue(ifc_options, k) = PyStrLower(Override[k])

\* The options of the view as they were before the override was applied.
BeforeOverride ==
    ResolveOptions(entry, ifc_version, "none", <<>>, use_active_view_only,
                   ifc_options.FilterViewId)

\* The resolved options hold for key k what they held before the override.
KeyKept(k) ==
    CASE k = "SpaceBoundaries" ->
            ifc_options.SpaceBoundaryLevel = BeforeOverride.SpaceBoundaryLevel
      [] k = "SplitWallsAndColumns" ->
            ifc_options.WallAndColumnSplitting = BeforeOverride.WallAndColumnSplitting
      [] k = "ExportBaseQuantities" ->
            ifc_options.ExportBaseQuantities = BeforeOverride.ExportBaseQuantities
      [] OTHER -> OptionValue(ifc_options, k) = OptionValue(BeforeOverride, k)

\* C12: an override whose IFCVersion is none of the codes the entry point
\* recognizes leaves the file version of the preset, apply returns True, no
\* warning is logged for the version, and every other recognized key of the
\* override whose value can be assigned is applied.
C12_UnknownVersionIgnored ==
    (/\ Resolved
     /\ "IFCVersion" \in DOMAIN Override
     /\ PyNum(Override["IFCVersion"]) \notin {21} \cup Ifc4Codes(entry)) =>
        /\ ifc_options.FileVersion = BeforeOverride.FileVersion
        /\ applied = "True"
        /\ "IFCVersion" \notin warnings
        /\ \A k \in RecognizedKeys \cap DOMAIN Override : ~Fails(k) => KeyApplied(k)

C12_Witness ==
    /\ Resolved
    /\ Given("IFCVersion", "int") /\ Override["IFCVersion"].n = 99
    /\ ifc_options.FileVersion = "IFC2x3CV2"
    /\ ~use_active_view_only
    /\ Given("ExportLinkedFiles", "bool") /\ Override["ExportLinkedFiles"].b
    /\ OptionValue(ifc_options, "ExportLinkedFiles") = "true"
    /\ Given("SpaceBoundaries", "int") /\ ifc_options.SpaceBoundaryLevel = 2

\* C13: in every entry point an override IFCVersion of 21 gives the file
\* version IFC2x3CV2 and one of 23 or of 25 gives IFC4, and an override
\* gives no other file version.
C13_VersionCodes ==
    (Resolved /\ applied = "True" /\ "IFCVersion" \in DOMAIN Override) =>
        /\ PyNum(Override["IFCVersion"]) = 21 => ifc_options.FileVersion = "IFC2x3CV2"
        /\ PyNum(Override["IFCVersion"]) \in {23, 25} => ifc_options.FileVersion = "IFC4"
        /\ ifc_options.FileVersion \in {"IFC2x3CV2", "IFC4"}

\* C14: every key of the override that the entry point does not recognize
\* is among the named options handed to the exporter, under its own name
\* and with its own value.
C14_UnknownKeysForwarded ==
    (Resolved /\ applied = "True") =>
        \A k \in DOMAIN Override \ (RecognizedKeys \cup {"IFCVersion"}) :
            /\ k \in DOMAIN ifc_options.Options
            /\ ifc_options.Options[k] = PyStrLower(Override[k])

\* C15: when the override bag is applied, each recognized key whose value
\* cannot be assigned has a warning and keeps the value it had before the
\* override, every other recognized key of the bag is applied, and
\* apply_ifc_config_to_options returns True.
C15_FailureOfOneKeyIsolated ==
    (Resolved /\ DOMAIN Override # {}) =>
        /\ applied = "True"
        /\ \A k \in RecognizedKeys \cap DOMAIN Override :
              IF Fails(k) THEN k \in warnings /\ KeyKept(k) ELSE KeyApplied(k)
        /\ warnings \subseteq {k \in RecognizedKeys \cap DOMAIN Override : Fails(k)}

C15_Witness ==
    /\ Resolved
    /\ Given("SpaceBoundaries", "str")
    /\ Given("SplitWallsAndColumns", "bool") /\ Given("ExportLinkedFiles", "bool")
    /\ ~use_active_view_only
    /\ warnings = {"SpaceBoundaries"}
    /\ applied = "True"
    /\ ifc_options.SpaceBoundaryLevel = 0
    /\ ifc_options.WallAndColumnSplitting = TRUE
    /\ OptionValue(ifc_options, "ExportLinkedFiles") = "true"

\* C16: resolving the options never ends the export of a view: whatever the
\* configuration file is (no file, a path of no file, a file that cannot be
\* loaded, an override), no view ends with an error before the exporter is
\* called, and without an applicable override the options are those of the
\* preset.
C16_ResolutionNeverFails ==
    /\ \A k \in DOMAIN outcomes : outcomes[k] # "error"
    /\ (Resolved /\ config_file \in {"missing", "unreadable"}) => ifc_options = BeforeOverride

\* ------------------------------------------------- claims on the batch run
\* C17: no two distinct files of a batch run write into the same place: the
\* exported paths of two distinct units are in different directories.
C17_UnitsWriteApart ==
    \A i \in 1..NUnits : \A j \in 1..NUnits :
        (i # j /\ file_paths[i] # file_paths[j]) =>
            \A p \in Range(unitExports[i]) : \A q \in Range(unitExports[j]) : p.dir # q.dir

\* The positions of the scripts outside every transaction.
OutsideTransaction ==
    {"start", "open", "makedirs", "select", "probe", "view", "tx_start", "returned",
     "probe2", "close", "done"}

\* RollBack of a started transaction returns in every step of the model.
\* C18: at most one transaction is open at any point, and none is open when
\* another one is about to start, when the document is closed or between
\* two views: each of the probe transactions and of the export transactions
\* is committed or rolled back first.
C18_OneTransactionOpen ==
    /\ openTx \in {0, 1}
    /\ openTx = 1 <=> tx = "started"
    /\ pc \in OutsideTransaction => openTx = 0

C18_Witness ==
    /\ entry = "batch"
    /\ pc = "close"
    /\ Len(outcomes) = 2
    /\ outcomes[1] = "raised"
    /\ outcomes[2] = "truthy"
    /\ tx = "rolledback"
    /\ openTx = 0

\* ------------------------------------------------- claims on read_ifc_file
\* The records of every bucket, and the lines taken so far that qualify.
Records == UNION {Range(elements_by_type[t]) : t \in DOMAIN elements_by_type}
QualifyingPositions == {k \in 1..consumed : Qualifies(ifc_lines[k])}

\* A line that starts with '#' and holds '=IFC' and no '('.
NoParenthesis(l) == Qualifies(l) /\ "(" \notin Range(l)

\* C19: a line that starts with '#', holds '=IFC' and holds no '(' gives no
\* record: no record of any bucket is of that line, and the counts count
\* only the qualifying lines that hold a '('.
C19_NoRecordWithoutParenthesis ==
    \A k \in 1..consumed :
        NoParenthesis(ifc_lines[k]) =>
            /\ \A r \in Records : r.line # k
            /\ \A t \in DOMAIN element_types :
                  element_types[t] =
                     Cardinality({j \in QualifyingPositions :
                                     /\ ~NoParenthesis(ifc_lines[j])
                                     /\ EntityType(ifc_lines[j]) = t})

\* C20: the line number of every record is the 1-based position, in the
\* file, of the line it was made from (the lines before it that were
\* skipped count too), every qualifying line taken so far has its record,
\* and the records of a bucket are in increasing line order.
C20_LineNumbers ==
    /\ line_num = consumed
    /\ {r.line : r \in Records} = QualifyingPositions
    /\ \A t \in DOMAIN elements_by_type :
          LET b == elements_by_type[t]
          IN /\ \A i \in DOMAIN b :
                   /\ b[i].line \in 1..consumed
                   /\ b[i].raw_data = StripOf(ifc_lines[b[i].line], Whitespace)
                   /\ b[i].type = t
                   /\ EntityType(ifc_lines[b[i].line]) = t
             /\ \A i \in DOMAIN b : \A j \in DOMAIN b : i < j => b[i].line < b[j].line

C20_Witness ==
    /\ rpc = "returned"
    /\ Len(ifc_lines) = 3
    /\ ~Qualifies(ifc_lines[1])
    /\ BadByte \in Range(ifc_lines[2])
    /\ <<"I", "F", "C", "W">> \in DOMAIN elements_by_type
    /\ Len(elements_by_type[<<"I", "F", "C", "W">>]) = 2
    /\ elements_by_type[<<"I", "F", "C", "W">>][1].line = 2
    /\ elements_by_type[<<"I", "F", "C", "W">>][2].line = 3

C22_ExtractSelectedTypes ==
    rpc = "extracted" =>
        /\ DOMAIN elements = selected_types \cap DOMAIN elements_by_type
        /\ \A t \in DOMAIN elements :
              /\ elements[t] = elements_by_type[t]
              /\ \A r \in Range(elements[t]) : r.type \in selected_types

C22_Witness ==
    /\ rpc = "extracted"
    /\ selected_types = {<<"I", "F", "C", "W">>}
    /\ DOMAIN elements = {<<"I", "F", "C", "W">>}
    /\ Len(elements[<<"I", "F", "C", "W">>]) = 2
    /\ <<"I", "F", "C", "D">> \in DOMAIN elements_by_type

\* C30: at every point of read_ifc_file and in what it returns, the two
\* mappings have the same keys, the count of a type is the number of records
\* of its bucket, every record of bucket t has type t, and the type taken
\* from the label of t is t again: the selected types are the types of the
\* labels that were picked.
C30_CountsMatchBuckets ==
    /\ DOMAIN element_types = DOMAIN elements_by_type
    /\ \A t \in DOMAIN element_types :
          /\ element_types[t] = Len(elements_by_type[t])
          /\ \A r \in Range(elements_by_type[t]) : r.type = t
    /\ rpc \in {"selected", "extracted"} =>
          selected_types =
             {t \in DOMAIN element_types : Label(t, element_types[t]) \in selected_options}

C30_Witness ==
    /\ rpc = "selected"
    /\ DOMAIN element_types = {<<"I", "F", "C", "W">>, <<"I", "F", "C", "W", ";">>}
    /\ element_types[<<"I", "F", "C", "W">>] = 2
    /\ selected_types = {<<"I", "F", "C", "W">>}

\* ------------------------------------------------- claims on the file naming
\* The characters of the model that are in [A-Za-z0-9 _-].
AsciiSafe == {"A", "B", "1", " ", "-", "_"}

\* a is b with some of its characters taken away.
RECURSIVE IsSubsequence(_, _)
IsSubsequence(a, b) ==
    IF a = <<>> THEN TRUE
    ELSE IF b = <<>> THEN FALSE
    ELSE IF Head(a) = Head(b) THEN IsSubsequence(Tail(a), Tail(b))
    ELSE IsSubsequence(a, Tail(b))

\* C23 as stated: the safe name of every display name holds only characters of
\* [A-Za-z0-9 _-], ends with no white space, keeps the characters it
\* retains in their order, and the file name is the prefix followed by it.
C23_SafeNameIsAscii ==
    npc # "start" =>
        /\ \A i \in DOMAIN safe_viewname : safe_viewname[i] \in AsciiSafe
        /\ safe_viewname # <<>> => safe_viewname[Len(safe_viewname)] # " "
        /\ IsSubsequence(safe_viewname, display_name)
        /\ safe_filename = name_prefix \o safe_viewname

\* C23 amended: the safe name of every display name holds only characters
\* that are alphanumeric for isalnum (the letters and digits of every
\* script, accented letters among them), spaces, hyphens and underscores,
\* ends with no white space, keeps the characters it retains in their
\* order, and the file name is the prefix followed by it.
C23_SafeNameIsAlphanumeric ==
    npc # "start" =>
        /\ \A i \in DOMAIN safe_viewname : safe_viewname[i] \in AsciiSafe \cup {"<e9>"}
        /\ safe_viewname # <<>> => safe_viewname[Len(safe_viewname)] # " "
        /\ IsSubsequence(safe_viewname, display_name)
        /\ safe_filename = name_prefix \o safe_viewname

C23_Witness ==
    /\ npc = "named"
    /\ display_name = <<"<e9>", "/", " ">>
    /\ name_prefix = <<"I", "F", "C", "4", "_">>
    /\ safe_viewname = <<"<e9>">>
    /\ safe_filename = <<"I", "F", "C", "4", "_", "<e9>">>

\* C24: the safe name of a safe name is that safe name.
C24_SanitizeIdempotent ==
    npc = "again" => safe_again = safe_viewname

C24_Witness ==
    /\ npc = "again"
    /\ display_name = <<"A", "/", " ">>
    /\ safe_viewname = <<"A">>
    /\ safe_again = <<"A">>

\* ------------------------------------------------- claims on the report
\* C25: when the batch run returns every file is counted exactly once: in
\* successful_files when it gave an exported file, with exactly one entry
\* of failed_files otherwise, so that the two add up to the number of
\* files, also when closing a file raises.
C25_EveryUnitCountedOnce ==
    (entry = "batch" /\ pc = "done") =>
        /\ successful_files + Len(failed_files) = NUnits
        /\ \A i \in 1..NUnits :
              Cardinality(FailuresOf(i)) = IF unitExports[i] # <<>> THEN 0 ELSE 1

\* C26: the run ends, every file of the list was visited once and in the
\* order of the list (the loop never goes back and reaches the open of a
\* file only from the file before it), and the failure entries are in the
\* order of the list.
C26_TerminatesInOrder ==
    /\ <>(pc = "done")
    /\ [][idx' \in {idx, idx + 1} /\ ((pc' = "open" /\ pc # "start") => idx' = idx + 1)]_vars
    /\ [](/\ \A k \in 1..(Len(failed_units) - 1) : failed_units[k] <= failed_units[k + 1]
          /\ (entry = "batch" /\ pc = "done") =>
                /\ idx = NUnits
                /\ \A i \in 1..NUnits : docs[i].state # "unopened")

C26_Witness ==
    /\ entry = "batch"
    /\ pc = "done"
    /\ NUnits = 2
    /\ docs[1].state = "closed"
    /\ docs[2].state = "failed"
    /\ Len(failed_units) = 2
    /\ failed_units[1] = 1
    /\ failed_units[2] = 2

\* C27: the prefix of the file name is "IFC4_" exactly when the file
\* version of the resolved options is IFC4, for every mode and every
\* override file.
C27_PrefixAgreesWithVersion ==
    filepath # NoPath =>
        (filepath.prefix = "IFC4_" <=> ifc_options.FileVersion = "IFC4")

\* C28: the paths of the exported files of one file are pairwise distinct.
C28_PathsDistinct ==
    \A i \in DOMAIN doc_exports : \A j \in DOMAIN doc_exports :
        i # j => doc_exports[i] # doc_exports[j]

\* C29: a file rejected because its probe failed has no directory made for
\* it (no file before it in the list has its name).
C29_RejectedUnitMakesNoDirectory ==
    (is_linked_file /\ \A j \in 1..(idx - 1) : FileName(file_paths[j]) # file_name) =>
        doc_folder \notin dirs

====
